---- MODULE Spec2Model ----
(***************************************************************************)
(* Model of the Google Sheets / Gmail convenience layer                    *)
(* (gmail_client.py, sheets_client.py, sheets_helper.py).                  *)
(*                                                                         *)
(* Conventions.                                                            *)
(*  - A Python str is a sequence of characters; a character is a short     *)
(*    TLA+ string.  CJK literals of the source are written as sequences of *)
(*    their pinyin syllables, one syllable per character.                  *)
(*  - An Optional[str] is a record: None, or Some(text).                   *)
(*  - A Python dict is a function whose DOMAIN is its set of keys.         *)
(*  - An email body, which the source builds by string concatenation, is   *)
(*    the sequence of the pieces concatenated, each piece a record that    *)
(*    names the template literal and carries the interpolated values.      *)
(***************************************************************************)
EXTENDS Integers, Sequences, FiniteSets, TLC

VARIABLES
    articles,     \* the caller's list of article dicts (the input)
    html_body,    \* result of _build_html_body, or NotBuilt
    text_body,    \* result of _build_text_body, or NotBuilt
    env,          \* os.environ after load_dotenv
    token_file,   \* the pickle at GMAIL_TOKEN_FILE
    sheets_meta,  \* the remote spreadsheet's list of sheets (titles)
    sheet_rows,   \* the remote spreadsheet's number of rows
    outbox,       \* the number of messages the mail service has sent
    client_cache, \* _sheets_cache of a long-lived SheetsClient
    call          \* the last invocation: operation, arguments, outcome, remote steps

vars == <<articles, html_body, text_body, env, token_file, sheets_meta,
          sheet_rows, outbox, client_cache, call>>

----------------------------------------------------------------------------
(* Python values *)

None == [some |-> FALSE]
Some(t) == [some |-> TRUE, v |-> t]

\* bool(x) of an Optional[str]: None and "" are falsy
Truthy(o) == o.some /\ o.v # <<>>

\* a Python list handed to a caller, told apart from a dict
PyList(s) == [list |-> s]

\* dict.get(key, default)
Get(d, key, default) == IF key \in DOMAIN d THEN d[key] ELSE default

Min(a, b) == IF a < b THEN a ELSE b

\* s[:n]
Slice(s, n) == SubSeq(s, 1, Min(n, Len(s)))

----------------------------------------------------------------------------
(* gmail_client.py: the two body builders *)

\* articles[:10]
InlineLimit == 10

\* the .get defaults of both builders
NoTitle == <<"wu", "biao", "ti">>           \* '无标题'
NoSource == <<"wei", "zhi", "lai", "yuan">> \* '未知来源'
NoTime == <<"N", "/", "A">>                 \* 'N/A'
NoUrl == <<"#">>                            \* '#'
NoSummary == <<"zan", "wu", "zhai", "yao">> \* '暂无摘要'

HtmlInline(arts) == Slice(arts, InlineLimit)

HtmlOverflow(arts) == Len(arts) > InlineLimit

\* variant: the link's default where the time's default belongs
HtmlArticleTimeDefault(i, article) ==
    [ seg          |-> "div.article",
      i            |-> i,
      title        |-> Get(article, "title", NoTitle),
      source       |-> Get(article, "source", NoSource),
      published_at |-> Get(article, "published_at", NoUrl),
      summary      |-> Get(article, "raw_summary", NoSummary),
      url          |-> Get(article, "url", NoUrl) ]

HtmlArticle(i, article) ==
    [ seg          |-> "div.article",
      i            |-> i,
      title        |-> Get(article, "title", NoTitle),
      source       |-> Get(article, "source", NoSource),
      published_at |-> Get(article, "published_at", NoTime),
      summary      |-> Get(article, "raw_summary", NoSummary),
      url          |-> Get(article, "url", NoUrl) ]

_build_html_body(arts, time_window, sheet_url) ==
    LET shown == HtmlInline(arts)
    IN  <<[seg |-> "head", total |-> Len(arts)]>>
        \o (IF Truthy(time_window)
            THEN <<[seg |-> "time_window", v |-> time_window.v]>> ELSE <<>>)
        \o <<[seg |-> "summary_end"]>>
        \o (IF Truthy(sheet_url)
            THEN <<[seg |-> "sheet_link", v |-> sheet_url.v]>> ELSE <<>>)
        \o <<[seg |-> "h2"]>>
        \o [i \in 1..Len(shown) |-> HtmlArticle(i, shown[i])]
        \o (IF HtmlOverflow(arts)
            THEN <<[seg |-> "overflow", total |-> Len(arts)]>> ELSE <<>>)
        \o <<[seg |-> "tail"]>>

TextInline(arts) == Slice(arts, InlineLimit)

\* variant: the notice already at exactly ten records
TextOverflowAtLimit(arts) == Len(arts) >= InlineLimit

TextOverflow(arts) == Len(arts) > InlineLimit

\* the six lines appended for one article
TextArticle(i, article) ==
    << [line |-> "item", i |-> i, v |-> Get(article, "title", NoTitle)],
       [line |-> "source", v |-> Get(article, "source", NoSource)],
       [line |-> "time", v |-> Get(article, "published_at", NoTime)],
       [line |-> "summary", v |-> Get(article, "raw_summary", NoSummary)],
       [line |-> "link", v |-> Get(article, "url", NoUrl)],
       [line |-> "blank"] >>

RECURSIVE TextArticles(_, _)
TextArticles(shown, i) ==
    IF i > Len(shown) THEN <<>>
    ELSE TextArticle(i, shown[i]) \o TextArticles(shown, i + 1)

_build_text_body(arts, time_window, sheet_url) ==
    <<[line |-> "banner"], [line |-> "total", total |-> Len(arts)]>>
    \o (IF Truthy(time_window)
        THEN <<[line |-> "time_window", v |-> time_window.v]>> ELSE <<>>)
    \o (IF Truthy(sheet_url)
        THEN <<[line |-> "sheet_link", v |-> sheet_url.v]>> ELSE <<>>)
    \o <<[line |-> "headline"]>>
    \o TextArticles(TextInline(arts), 1)
    \o (IF TextOverflow(arts)
        THEN <<[line |-> "overflow", total |-> Len(arts)]>> ELSE <<>>)
    \o <<[line |-> "rule"]>>

----------------------------------------------------------------------------
(* Inputs of the body builders *)

Fields == {"title", "source", "published_at", "url", "raw_summary"}

\* the value a field has when the record carries it
ValueOf(f) == <<"v", f>>

\* every record that carries some of the five fields
ArticleShapes == {[f \in D |-> ValueOf(f)] : D \in SUBSET Fields}

\* a record whose fields are all present and empty
BlankArticle == [f \in Fields |-> <<>>]

\* two complete records that differ, to tell positions apart
ArticleA == [f \in Fields |-> <<"a", f>>]
ArticleB == [title |-> <<"b">>, url |-> <<"b", "url">>]

MaxLong == 12
MaxShort == 1

SeqsUpTo(S, n) == UNION {[1..k -> S] : k \in 0..n}

\* lists of every length, one place of each marked by the other record
MarkedLists ==
    { [i \in 1..n |-> IF i = p THEN ArticleB ELSE ArticleA] :
        n \in 0..MaxLong, p \in 0..MaxLong }

BodyArticleLists ==
    MarkedLists \cup SeqsUpTo(ArticleShapes \cup {BlankArticle}, MaxShort)

OptTexts == {None, Some(<<>>), Some(<<"x">>)}

NotBuilt == <<[seg |-> "not built"]>>

----------------------------------------------------------------------------
(* Remote steps and faults                                                 *)
(*                                                                         *)
(* The vendor services are kept as what the functions can change in them:  *)
(* the spreadsheet's number of rows and list of sheets, and the number of  *)
(* messages sent. What a request carried is kept in the invocation's log.  *)
(*                                                                         *)
(* Every step that leaves the process (a file read, a vendor call) is      *)
(* appended to the invocation's log. An invocation is run against k, the   *)
(* position of the step that raises (0: none does); no handler of the      *)
(* source continues past a raise, so one failing step covers every fault   *)
(* pattern.                                                                *)

Ext(log, ev, arg, k) ==
    Append(log, [ev |-> ev, arg |-> arg, ok |-> Len(log) + 1 # k])

Failed(log) == log # <<>> /\ ~log[Len(log)].ok

\* str(e) of the exception the last step raised
FaultMsg(log) == <<"fault", log[Len(log)].ev>>

\* how a call ends
Return(v) == [kind |-> "return", value |-> v]
Raise(msg) == [kind |-> "raise", error |-> msg]

\* result of a step sequence that may raise
Ok(log, v) == [exc |-> None, log |-> log, val |-> v]
Exc(log, msg) == [exc |-> Some(msg), log |-> log, val |-> <<>>]

----------------------------------------------------------------------------
(* sheets_client.py *)

\* ValueError messages of SheetsClient.__init__
MsgNoSpreadsheetId == <<"GOOGLE_SPREADSHEET_ID", "not", "found">>
MsgNoServiceAccountFile == <<"GOOGLE_SERVICE_ACCOUNT_FILE", "not", "found">>
\* RuntimeError message of get_first_sheet_title
MsgNoSheets == <<"no", "sheet", "found">>

\* a or b
Or(a, b) == IF Truthy(a) THEN a ELSE b

\* variant: the key file checked before the spreadsheet ID
MissingConfigKeyFileFirst(spreadsheet_id, service_account_file) ==
    IF ~Truthy(service_account_file) THEN Some(MsgNoServiceAccountFile)
    ELSE IF ~Truthy(spreadsheet_id) THEN Some(MsgNoSpreadsheetId)
    ELSE None

\* which configuration value __init__ finds missing first
MissingConfig(spreadsheet_id, service_account_file) ==
    IF ~Truthy(spreadsheet_id) THEN Some(MsgNoSpreadsheetId)
    ELSE IF ~Truthy(service_account_file) THEN Some(MsgNoServiceAccountFile)
    ELSE None

\* SheetsClient.__init__; val is the new client's spreadsheet_id
SheetsClient_init(spreadsheet_id_arg, service_account_file_arg, log, k) ==
    LET spreadsheet_id == Or(spreadsheet_id_arg, env.GOOGLE_SPREADSHEET_ID)
        service_account_file ==
            Or(service_account_file_arg, env.GOOGLE_SERVICE_ACCOUNT_FILE)
        missing == MissingConfig(spreadsheet_id, service_account_file)
        l1 == Ext(log, "from_service_account_file", service_account_file, k)
        l2 == Ext(l1, "build_sheets", <<>>, k)
    IN  IF missing.some THEN Exc(log, missing.v)
        ELSE IF Failed(l1) THEN Exc(l1, FaultMsg(l1))
        ELSE IF Failed(l2) THEN Exc(l2, FaultMsg(l2))
        ELSE Ok(l2, spreadsheet_id.v)

get_sheets_client(spreadsheet_id_arg, service_account_file_arg, log, k) ==
    SheetsClient_init(spreadsheet_id_arg, service_account_file_arg, log, k)

\* variant: an empty cached list taken for no cache ("not self._sheets_cache")
MustFetchWhenFalsy(cache, force_refresh) == ~Truthy(cache) \/ force_refresh

\* whether get_sheets goes to the remote service
MustFetch(cache, force_refresh) == ~cache.some \/ force_refresh

\* SheetsClient.get_sheets; cache is _sheets_cache afterwards
get_sheets(cache, force_refresh, log, k) ==
    LET l1 == Ext(log, "spreadsheets.get", <<>>, k)
    IN  IF MustFetch(cache, force_refresh)
        THEN IF Failed(l1)
             THEN [exc |-> Some(FaultMsg(l1)), log |-> l1, val |-> <<>>,
                   cache |-> cache]
             ELSE [exc |-> None, log |-> l1, val |-> sheets_meta,
                   cache |-> Some(sheets_meta)]
        ELSE [exc |-> None, log |-> log, val |-> cache.v, cache |-> cache]

\* SheetsClient.get_first_sheet_title
get_first_sheet_title(cache, log, k) ==
    LET g == get_sheets(cache, FALSE, log, k)
    IN  IF g.exc.some THEN g
        ELSE IF g.val = <<>>
        THEN [g EXCEPT !.exc = Some(MsgNoSheets), !.val = <<>>]
        ELSE [g EXCEPT !.val = g.val[1].properties.title]

RECURSIVE Cells(_)
Cells(data) == IF data = <<>> THEN 0 ELSE Len(Head(data)) + Cells(Tail(data))

\* the vendor's reply to values.append
AppendReply(data, range) ==
    [updates |-> [updatedCells |-> Cells(data), updatedRange |-> range]]

\* SheetsClient.write_data
write_data(data, range, log, k) ==
    LET l1 == Ext(log, "values.update", [range |-> range, body |-> data], k)
    IN  IF Failed(l1) THEN Exc(l1, FaultMsg(l1))
        ELSE Ok(l1, [updatedRange |-> range, updatedRows |-> Len(data)])

\* SheetsClient.append_data
append_data(data, range, log, k) ==
    LET l1 == Ext(log, "values.append", [range |-> range, body |-> data], k)
    IN  IF Failed(l1) THEN Exc(l1, FaultMsg(l1))
        ELSE Ok(l1, AppendReply(data, range))

\* SheetsClient.read_data: result.get('values', [])
read_data(range, log, k) ==
    LET l1 == Ext(log, "values.get", [range |-> range], k)
        reply == IF sheet_rows = 0 THEN [range |-> range]
                 ELSE [range |-> range, values |-> [i \in 1..sheet_rows |-> <<i>>]]
    IN  IF Failed(l1) THEN Exc(l1, FaultMsg(l1))
        ELSE Ok(l1, PyList(Get(reply, "values", <<>>)))

\* the range the module-level functions fall back to
DefaultRange(range_notation, sheet_title, suffix, log, k) ==
    LET t == get_first_sheet_title(None, log, k)
    IN  IF range_notation.some THEN Ok(log, range_notation.v)
        ELSE IF Truthy(sheet_title) THEN Ok(log, sheet_title.v \o suffix)
        ELSE IF t.exc.some THEN Exc(t.log, t.exc.v)
        ELSE Ok(t.log, t.val \o suffix)

write_to_sheets(data, range_notation, sheet_title, spreadsheet_id, k) ==
    LET c == get_sheets_client(spreadsheet_id, None, <<>>, k)
        r == DefaultRange(range_notation, sheet_title, <<"!A1">>, c.log, k)
    IN  IF c.exc.some THEN c
        ELSE IF r.exc.some THEN r
        ELSE write_data(data, r.val, r.log, k)

append_to_sheets(data, range_notation, sheet_title, spreadsheet_id, k) ==
    LET c == get_sheets_client(spreadsheet_id, None, <<>>, k)
        r == DefaultRange(range_notation, sheet_title, <<"!A:Z">>, c.log, k)
    IN  IF c.exc.some THEN c
        ELSE IF r.exc.some THEN r
        ELSE append_data(data, r.val, r.log, k)

read_from_sheets(range_notation, spreadsheet_id, k) ==
    LET c == get_sheets_client(spreadsheet_id, None, <<>>, k)
    IN  IF c.exc.some THEN c
        ELSE read_data(range_notation, c.log, k)

\* a module-level function hands its caller the value or the exception
Propagate(r) ==
    [ outcome |-> IF r.exc.some THEN Raise(r.exc.v) ELSE Return(r.val),
      log |-> r.log ]

----------------------------------------------------------------------------
(* sheets_helper.py *)

\* article.get('raw_summary', '')[:500]
SummaryLimit == 500

\* f"=== 批次: {timestamp} ==="
TimestampRow(now) ==
    << <<"===", "pi", "ci", ":">> \o now \o <<"===">>, <<>>, <<>>, <<>>, <<>> >>

\* ["发布时间", "标题", "来源", "链接", "摘要"]
HeaderRow ==
    << <<"fa", "bu", "shi", "jian">>, <<"biao", "ti">>, <<"lai", "yuan">>,
       <<"lian", "jie">>, <<"zhai", "yao">> >>

ArticleRow(article) ==
    << Get(article, "published_at", <<>>),
       Get(article, "title", <<>>),
       Get(article, "source", <<>>),
       Get(article, "url", <<>>),
       Slice(Get(article, "raw_summary", <<>>), SummaryLimit) >>

\* variant: the header row put before the batch row
BuildRowsHeaderFirst(arts, add_header, add_timestamp, now) ==
    (IF add_header THEN <<HeaderRow>> ELSE <<>>)
    \o (IF add_timestamp THEN <<TimestampRow(now)>> ELSE <<>>)
    \o [i \in 1..Len(arts) |-> ArticleRow(arts[i])]

\* lines 39-58 of save_news_to_sheets
BuildRows(arts, add_header, add_timestamp, now) ==
    (IF add_timestamp THEN <<TimestampRow(now)>> ELSE <<>>)
    \o (IF add_header THEN <<HeaderRow>> ELSE <<>>)
    \o [i \in 1..Len(arts) |-> ArticleRow(arts[i])]

\* f"https://docs.google.com/spreadsheets/d/{client.spreadsheet_id}"
SheetUrl(spreadsheet_id) ==
    <<"https://docs.google.com/spreadsheets/d/">> \o spreadsheet_id

Failure(msg) == [success |-> FALSE, error |-> msg]

EmptyDict == <<>>

\* variant: the client for sheet_url constructed before the append
save_news_to_sheets_ClientFirst(arts, add_header, add_timestamp, now, k) ==
    LET rows == BuildRows(arts, add_header, add_timestamp, now)
        client == get_sheets_client(None, None, <<>>, k)
        result0 == append_to_sheets(rows, None, None, None, k - Len(client.log))
        result == [result0 EXCEPT !.log = client.log \o result0.log]
        updates == Get(result.val, "updates", EmptyDict)
    IN  IF client.exc.some
        THEN [outcome |-> Return(Failure(client.exc.v)), log |-> client.log]
        ELSE IF result.exc.some
        THEN [outcome |-> Return(Failure(result.exc.v)), log |-> result.log]
        ELSE [ outcome |-> Return(
                   [ success |-> TRUE,
                     updated_cells |-> Get(updates, "updatedCells", 0),
                     updated_range |-> Get(updates, "updatedRange", <<>>),
                     sheet_url |-> SheetUrl(client.val) ]),
               log |-> result.log ]

save_news_to_sheets(arts, add_header, add_timestamp, now, k) ==
    LET rows == BuildRows(arts, add_header, add_timestamp, now)
        result == append_to_sheets(rows, None, None, None, k)
        client == get_sheets_client(None, None, result.log, k)
        updates == Get(result.val, "updates", EmptyDict)
    IN  IF result.exc.some
        THEN [outcome |-> Return(Failure(result.exc.v)), log |-> result.log]
        ELSE IF client.exc.some
        THEN [outcome |-> Return(Failure(client.exc.v)), log |-> client.log]
        ELSE [ outcome |-> Return(
                   [ success |-> TRUE,
                     updated_cells |-> Get(updates, "updatedCells", 0),
                     updated_range |-> Get(updates, "updatedRange", <<>>),
                     sheet_url |-> SheetUrl(client.val) ]),
               log |-> client.log ]

\* variant: no try/except around the body
create_sheets_header_Unwrapped(k) ==
    LET result == write_to_sheets(<<HeaderRow>>, None, None, None, k)
        client == get_sheets_client(None, None, result.log, k)
    IN  IF result.exc.some
        THEN [outcome |-> Raise(result.exc.v), log |-> result.log]
        ELSE IF client.exc.some
        THEN [outcome |-> Raise(client.exc.v), log |-> client.log]
        ELSE [ outcome |-> Return([success |-> TRUE,
                                   sheet_url |-> SheetUrl(client.val)]),
               log |-> client.log ]

create_sheets_header(k) ==
    LET result == write_to_sheets(<<HeaderRow>>, None, None, None, k)
        client == get_sheets_client(None, None, result.log, k)
    IN  IF result.exc.some
        THEN [outcome |-> Return(Failure(result.exc.v)), log |-> result.log]
        ELSE IF client.exc.some
        THEN [outcome |-> Return(Failure(client.exc.v)), log |-> client.log]
        ELSE [ outcome |-> Return([success |-> TRUE,
                                   sheet_url |-> SheetUrl(client.val)]),
               log |-> client.log ]

get_sheet_url(k) ==
    LET client == get_sheets_client(None, None, <<>>, k)
    IN  [ outcome |-> Return(IF client.exc.some THEN None
                             ELSE Some(SheetUrl(client.val))),
          log |-> client.log ]

----------------------------------------------------------------------------
(* gmail_client.py: service and sending *)

\* the pickle at GMAIL_TOKEN_FILE: absent, or credentials that are valid,
\* expired with a refresh token, or neither valid nor refreshable
TokenStates == {"absent", "valid", "expired", "stale"}

\* get_gmail_service. A write that raises is taken to leave the file as it was.
get_gmail_service(log, k) ==
    LET l1 == IF token_file # "absent" THEN Ext(log, "token_read", <<>>, k) ELSE log
        l2 == IF token_file = "expired" THEN Ext(l1, "refresh", <<>>, k)
              ELSE Ext(l1, "from_client_secrets_file", <<>>, k)
        l3 == IF token_file = "expired" THEN l2
              ELSE Ext(l2, "run_local_server", <<>>, k)
        l4 == IF token_file = "valid" THEN l1 ELSE Ext(l3, "token_write", <<>>, k)
        l5 == Ext(l4, "build_gmail", <<>>, k)
    IN  IF Failed(l1) THEN Exc(l1, FaultMsg(l1))
        ELSE IF token_file # "valid" /\ Failed(l2) THEN Exc(l2, FaultMsg(l2))
        ELSE IF token_file # "valid" /\ Failed(l3) THEN Exc(l3, FaultMsg(l3))
        ELSE IF Failed(l4) THEN Exc(l4, FaultMsg(l4))
        ELSE IF Failed(l5) THEN Exc(l5, FaultMsg(l5))
        ELSE Ok(l5, "service")

\* "未设置收件人邮箱（GMAIL_TO）"
MsgNoRecipient == <<"GMAIL_TO", "not", "set">>

\* f"📰 新闻日报 - {len(articles)} 条新闻"
DefaultSubject(n) == <<"xin", "wen", "ri", "bao", n>>

\* variant: the sender's own address when no recipient is configured
RecipientOrSelf(to_email) ==
    IF Truthy(to_email) THEN to_email
    ELSE IF Truthy(env.GMAIL_TO) THEN env.GMAIL_TO
    ELSE Some(<<"me">>)

\* lines 84-85: the recipient the message would go to
Recipient(to_email) == IF ~Truthy(to_email) THEN env.GMAIL_TO ELSE to_email

\* variant: a failed send tried once more
send_news_email_Retry(arts, to_email, subject, time_window, sheet_url, k) ==
    LET to == Recipient(to_email)
        subj == IF ~Truthy(subject) THEN DefaultSubject(Len(arts)) ELSE subject.v
        service == get_gmail_service(<<>>, k)
        message == [ Subject |-> subj, To |-> to.v, From |-> "me",
                     plain |-> _build_text_body(arts, time_window, sheet_url),
                     html |-> _build_html_body(arts, time_window, sheet_url) ]
        first == Ext(service.log, "messages.send", message, k)
        sent == IF Failed(first) THEN Ext(first, "messages.send", message, k)
                ELSE first
    IN  IF ~Truthy(to)
        THEN [outcome |-> Return(Failure(MsgNoRecipient)), log |-> <<>>]
        ELSE IF service.exc.some
        THEN [outcome |-> Return(Failure(service.exc.v)), log |-> service.log]
        ELSE [ outcome |-> Return([success |-> TRUE, message_id |-> <<"id">>]),
               log |-> sent ]

send_news_email(arts, to_email, subject, time_window, sheet_url, k) ==
    LET to == Recipient(to_email)
        subj == IF ~Truthy(subject) THEN DefaultSubject(Len(arts)) ELSE subject.v
        service == get_gmail_service(<<>>, k)
        message == [ Subject |-> subj, To |-> to.v, From |-> "me",
                     plain |-> _build_text_body(arts, time_window, sheet_url),
                     html |-> _build_html_body(arts, time_window, sheet_url) ]
        sent == Ext(service.log, "messages.send", message, k)
    IN  IF ~Truthy(to)
        THEN [outcome |-> Return(Failure(MsgNoRecipient)), log |-> <<>>]
        ELSE IF service.exc.some
        THEN [outcome |-> Return(Failure(service.exc.v)), log |-> service.log]
        ELSE IF Failed(sent)
        THEN [outcome |-> Return(Failure(FaultMsg(sent))), log |-> sent]
        ELSE [ outcome |-> Return([success |-> TRUE, message_id |-> <<"id">>]),
               log |-> sent ]

\* send_email(articles, to_email, **kwargs)
send_email(arts, to_email, kwargs, k) ==
    send_news_email(arts, to_email, Get(kwargs, "subject", None),
                    Get(kwargs, "time_window", None),
                    Get(kwargs, "sheet_url", None), k)

----------------------------------------------------------------------------
(* The services' state after an invocation: what its successful steps did *)

Max(a, b) == IF a > b THEN a ELSE b

RECURSIVE RowsAfter(_, _)
RowsAfter(n, log) ==
    IF log = <<>> THEN n
    ELSE LET e == Head(log)
         IN  RowsAfter(IF e.ok /\ e.ev = "values.append" THEN n + Len(e.arg.body)
                       ELSE IF e.ok /\ e.ev = "values.update"
                            THEN Max(n, Len(e.arg.body))
                       ELSE n,
                       Tail(log))

IsOkStep(e, ev) == e.ok /\ e.ev = ev

CountOk(log, ev) == Cardinality({i \in 1..Len(log) : IsOkStep(log[i], ev)})

CountSteps(log, ev) == Cardinality({i \in 1..Len(log) : log[i].ev = ev})

TokenAfter(log) == IF CountOk(log, "token_write") > 0 THEN "valid" ELSE token_file

MaxSheetRows == 3
MaxOutbox == 1

\* where the fault may fall in an invocation of at most n steps
FaultAt(n) == 0..n

NoCall == [op |-> "none", args |-> <<>>, outcome |-> Return(<<>>), log |-> <<>>]

\* one invocation of a module-level function, start to end
Invoke(op, args, res) ==
    /\ RowsAfter(sheet_rows, res.log) <= MaxSheetRows
    /\ outbox + CountOk(res.log, "messages.send") <= MaxOutbox
    /\ call' = [op |-> op, args |-> args, outcome |-> res.outcome, log |-> res.log]
    /\ sheet_rows' = RowsAfter(sheet_rows, res.log)
    /\ outbox' = outbox + CountOk(res.log, "messages.send")
    /\ token_file' = TokenAfter(res.log)
    /\ UNCHANGED <<articles, html_body, text_body, env, sheets_meta, client_cache>>

OptAddrs == {None, Some(<<>>), Some(<<"to@x">>)}
OptIds == {None, Some(<<"id2">>)}
Targets ==
    { [range_notation |-> None, sheet_title |-> None],
      [range_notation |-> None, sheet_title |-> Some(<<"T">>)],
      [range_notation |-> Some(<<"S!A1">>), sheet_title |-> None] }
SendKwargs ==
    { EmptyDict,
      [subject |-> Some(<<"s">>), time_window |-> Some(<<"w">>),
       sheet_url |-> Some(<<"u">>)] }
Timestamps == {<<"2026-01-02 03:04:05">>}
DataSets == {<<HeaderRow>>}

Call_send_news_email ==
    \E to_email \in OptAddrs, kw \in SendKwargs, k \in FaultAt(6) :
        LET subject == Get(kw, "subject", None)
            time_window == Get(kw, "time_window", None)
            sheet_url == Get(kw, "sheet_url", None)
        IN  Invoke("send_news_email", [to_email |-> to_email],
                   send_news_email(articles, to_email, subject, time_window,
                                   sheet_url, k))

Call_send_email ==
    \E to_email \in OptAddrs, kw \in SendKwargs, k \in FaultAt(6) :
        Invoke("send_email", [to_email |-> to_email],
               send_email(articles, to_email, kw, k))

Call_save_news_to_sheets ==
    \E add_header \in BOOLEAN, add_timestamp \in BOOLEAN, now \in Timestamps,
       k \in FaultAt(6) :
        Invoke("save_news_to_sheets",
               [add_header |-> add_header, add_timestamp |-> add_timestamp,
                now |-> now],
               save_news_to_sheets(articles, add_header, add_timestamp, now, k))

Call_create_sheets_header ==
    \E k \in FaultAt(6) :
        Invoke("create_sheets_header", <<>>, create_sheets_header(k))

Call_get_sheet_url ==
    \E k \in FaultAt(2) :
        Invoke("get_sheet_url", <<>>, get_sheet_url(k))

Call_write_to_sheets ==
    \E data \in DataSets, t \in Targets, spreadsheet_id \in OptIds, k \in FaultAt(4) :
        Invoke("write_to_sheets", [spreadsheet_id |-> spreadsheet_id],
               Propagate(write_to_sheets(data, t.range_notation, t.sheet_title,
                                         spreadsheet_id, k)))

Call_append_to_sheets ==
    \E data \in DataSets, t \in Targets, spreadsheet_id \in OptIds, k \in FaultAt(4) :
        Invoke("append_to_sheets", [spreadsheet_id |-> spreadsheet_id],
               Propagate(append_to_sheets(data, t.range_notation, t.sheet_title,
                                          spreadsheet_id, k)))

Call_read_from_sheets ==
    \E spreadsheet_id \in OptIds, k \in FaultAt(3) :
        Invoke("read_from_sheets", [spreadsheet_id |-> spreadsheet_id],
               Propagate(read_from_sheets(<<"S!A1:E9">>, spreadsheet_id, k)))

FullEnv ==
    [ GOOGLE_SPREADSHEET_ID |-> Some(<<"id1">>),
      GOOGLE_SERVICE_ACCOUNT_FILE |-> Some(<<"sa.json">>),
      GMAIL_TO |-> Some(<<"env@x">>) ]

OneSheet == <<[properties |-> [title |-> <<"Sheet1">>]]>>

OptEnv == {None, Some(<<>>)}

\* the mail side varies (recipient, token file) with the sheets side configured,
\* and the sheets side varies (id, key file, sheets) with the mail side configured
Worlds ==
    { [env |-> [FullEnv EXCEPT !.GMAIL_TO = to], token_file |-> t,
       sheets_meta |-> OneSheet] :
        to \in OptEnv \cup {FullEnv.GMAIL_TO}, t \in TokenStates }
    \cup
    { [env |-> [FullEnv EXCEPT !.GOOGLE_SPREADSHEET_ID = id,
                               !.GOOGLE_SERVICE_ACCOUNT_FILE = sa],
       token_file |-> "valid", sheets_meta |-> m] :
        id \in OptEnv \cup {FullEnv.GOOGLE_SPREADSHEET_ID},
        sa \in OptEnv \cup {FullEnv.GOOGLE_SERVICE_ACCOUNT_FILE},
        m \in {<<>>, OneSheet} }

OpsArticleLists == {<<ArticleB>>}

Init ==
    /\ articles \in OpsArticleLists
    /\ html_body = NotBuilt
    /\ text_body = NotBuilt
    /\ \E w \in Worlds :
        /\ env = w.env
        /\ token_file = w.token_file
        /\ sheets_meta = w.sheets_meta
    /\ sheet_rows = 0
    /\ outbox = 0
    /\ client_cache = None
    /\ call = NoCall

Next ==
    \/ Call_send_news_email
    \/ Call_send_email
    \/ Call_save_news_to_sheets
    \/ Call_create_sheets_header
    \/ Call_get_sheet_url
    \/ Call_write_to_sheets
    \/ Call_append_to_sheets
    \/ Call_read_from_sheets

Spec == Init /\ [][Next]_vars

----------------------------------------------------------------------------
(* The body builders alone *)

InitBody ==
    /\ articles \in BodyArticleLists
    /\ html_body = NotBuilt
    /\ text_body = NotBuilt
    /\ env = FullEnv
    /\ token_file = "valid"
    /\ sheets_meta = <<>>
    /\ sheet_rows = 0
    /\ outbox = 0
    /\ client_cache = None
    /\ call = NoCall

\* send_news_email lines 107-110: both bodies from the same arguments
BuildBodies ==
    \E time_window \in OptTexts, sheet_url \in OptTexts :
        /\ html_body' = _build_html_body(articles, time_window, sheet_url)
        /\ text_body' = _build_text_body(articles, time_window, sheet_url)
        /\ UNCHANGED <<articles, env, token_file, sheets_meta, sheet_rows,
                       outbox, client_cache, call>>

NextBody == BuildBodies

SpecBody == InitBody /\ [][NextBody]_vars

----------------------------------------------------------------------------
(* save_news_to_sheets over records of every shape *)

\* a summary of n characters, its first and last marked
LongText(n) == [i \in 1..n |-> IF i = 1 THEN "a" ELSE IF i = n THEN "z" ELSE "c"]

\* records without a source, a time or a link, their summaries around the limit
LongArticles ==
    { [title |-> <<"long">>, raw_summary |-> LongText(n)] :
        n \in {SummaryLimit - 1, SummaryLimit, SummaryLimit + 1} }

\* records with no field, one field, all but one field, every field
RowShapes == {a \in ArticleShapes : Cardinality(DOMAIN a) \in {0, 1, 4, 5}}

RowArticleLists ==
    SeqsUpTo(RowShapes \cup {BlankArticle} \cup LongArticles, MaxShort)

InitRows ==
    /\ articles \in RowArticleLists
    /\ html_body = NotBuilt
    /\ text_body = NotBuilt
    /\ env = FullEnv
    /\ token_file = "valid"
    /\ sheets_meta = OneSheet
    /\ sheet_rows = 0
    /\ outbox = 0
    /\ client_cache = None
    /\ call = NoCall

NextRows == Call_save_news_to_sheets

SpecRows == InitRows /\ [][NextRows]_vars

----------------------------------------------------------------------------
(* One SheetsClient, constructed, and the calls made on it *)

TwoSheets == <<[properties |-> [title |-> <<"Sheet2">>]],
               [properties |-> [title |-> <<"Sheet1">>]]>>

MetaStates == {<<>>, OneSheet, TwoSheets}

\* one method call on the client, start to end
Method(op, args, r, cache_after) ==
    /\ RowsAfter(sheet_rows, r.log) <= MaxSheetRows
    /\ call' = [ op |-> op, args |-> args, outcome |-> Propagate(r).outcome,
                 log |-> r.log, cache_before |-> client_cache ]
    /\ client_cache' = cache_after
    /\ sheet_rows' = RowsAfter(sheet_rows, r.log)
    /\ UNCHANGED <<articles, html_body, text_body, env, token_file, sheets_meta,
                   outbox>>

Method_get_sheets ==
    \E force_refresh \in BOOLEAN, k \in 0..1 :
        LET r == get_sheets(client_cache, force_refresh, <<>>, k)
        IN  Method("get_sheets", [force_refresh |-> force_refresh],
                   [r EXCEPT !.val = PyList(r.val)], r.cache)

Method_get_first_sheet_title ==
    \E k \in 0..1 :
        LET r == get_first_sheet_title(client_cache, <<>>, k)
        IN  Method("get_first_sheet_title", [force_refresh |-> FALSE], r, r.cache)

Method_write_data ==
    \E data \in DataSets, k \in 0..1 :
        Method("write_data", <<>>, write_data(data, <<"S!A1">>, <<>>, k),
               client_cache)

Method_append_data ==
    \E data \in DataSets, k \in 0..1 :
        Method("append_data", <<>>, append_data(data, <<"S!A:Z">>, <<>>, k),
               client_cache)

Method_read_data ==
    \E k \in 0..1 :
        Method("read_data", <<>>, read_data(<<"S!A1:E9">>, <<>>, k), client_cache)

\* someone adds, removes or reorders sheets in the remote spreadsheet
RemoteEdit ==
    /\ sheets_meta' \in MetaStates \ {sheets_meta}
    /\ UNCHANGED <<articles, html_body, text_body, env, token_file, sheet_rows,
                   outbox, client_cache, call>>

InitCache ==
    /\ articles = <<>>
    /\ html_body = NotBuilt
    /\ text_body = NotBuilt
    /\ env = FullEnv
    /\ token_file = "valid"
    /\ sheets_meta \in MetaStates
    /\ sheet_rows = 0
    /\ outbox = 0
    /\ client_cache = None
    /\ call = NoCall

NextCache ==
    \/ Method_get_sheets
    \/ Method_get_first_sheet_title
    \/ Method_write_data
    \/ Method_append_data
    \/ Method_read_data
    \/ RemoteEdit

SpecCache == InitCache /\ [][NextCache]_vars

----------------------------------------------------------------------------
(* Properties of the body builders (under SpecBody) *)

Built == html_body # NotBuilt /\ text_body # NotBuilt

IsHtmlArticle(s) == s.seg = "div.article"
IsTextItem(l) == l.line = "item"
IsTextField(l) == l.line \in {"item", "source", "time", "summary", "link"}

HtmlItems == SelectSeq(html_body, IsHtmlArticle)
TextItems == SelectSeq(text_body, IsTextItem)
TextFieldLines == SelectSeq(text_body, IsTextField)

HtmlHasNotice == \E j \in 1..Len(html_body) : html_body[j].seg = "overflow"
TextHasNotice == \E j \in 1..Len(text_body) : text_body[j].line = "overflow"

\* where each field of a record goes in the HTML block and in the text lines
HtmlKey(f) == IF f = "raw_summary" THEN "summary" ELSE f
TextPlace(f) ==
    CASE f = "title" -> 1 [] f = "source" -> 2 [] f = "published_at" -> 3
      [] f = "raw_summary" -> 4 [] f = "url" -> 5

\* the text line that shows field f of the i-th inline record
TextField(i, f) == TextFieldLines[5 * (i - 1) + TextPlace(f)]

ShownCount == IF Len(articles) < 10 THEN Len(articles) ELSE 10

\* C1: for a list of n records, the HTML body and the plaintext body each list
\* exactly min(n, 10) records inline, the first ones of the input in input
\* order, numbered 1..min(n, 10), and each carries the overflow notice exactly
\* when n > 10.
C1_InlineAndOverflow ==
    Built =>
        /\ Len(HtmlItems) = ShownCount
        /\ Len(TextItems) = ShownCount
        /\ Len(TextFieldLines) = 5 * ShownCount
        /\ \A i \in 1..ShownCount :
            /\ HtmlItems[i].i = i
            /\ TextItems[i].i = i
            /\ TextField(i, "title") = TextItems[i]
            /\ \A f \in DOMAIN articles[i] :
                /\ HtmlItems[i][HtmlKey(f)] = articles[i][f]
                /\ TextField(i, f).v = articles[i][f]
        /\ HtmlHasNotice <=> Len(articles) > 10
        /\ TextHasNotice <=> Len(articles) > 10

\* eleven records, ten of them inline and the notice in both bodies
C1_Witness ==
    /\ Built
    /\ Len(articles) = 11
    /\ Len(HtmlItems) = 10
    /\ HtmlHasNotice
    /\ TextHasNotice

\* the placeholder the documentation gives for each field
Placeholder(f) ==
    CASE f = "title" -> <<"wu", "biao", "ti">>
      [] f = "source" -> <<"wei", "zhi", "lai", "yuan">>
      [] f = "published_at" -> <<"N", "/", "A">>
      [] f = "url" -> <<"#">>
      [] f = "raw_summary" -> <<"zan", "wu", "zhai", "yao">>

Expected(article, f) == IF f \in DOMAIN article THEN article[f] ELSE Placeholder(f)

\* C6: in every record rendered inline, a field the record lacks shows its
\* placeholder, a field it carries shows its own value, and the HTML and the
\* plaintext bodies show the same text for the same field.
C6_Placeholders ==
    Built =>
        \A i \in 1..Len(HtmlItems) : \A f \in Fields :
            /\ HtmlItems[i][HtmlKey(f)] = Expected(articles[i], f)
            /\ TextField(i, f).v = Expected(articles[i], f)
            /\ TextField(i, f).v = HtmlItems[i][HtmlKey(f)]

\* a record with a title and a link and nothing else, rendered
C6_Witness ==
    /\ Built
    /\ Len(articles) = 1
    /\ DOMAIN articles[1] = {"title", "url"}
    /\ HtmlItems[1].title = articles[1].title
    /\ HtmlItems[1].published_at = <<"N", "/", "A">>
    /\ TextField(1, "raw_summary").v = <<"zan", "wu", "zhai", "yao">>

----------------------------------------------------------------------------
(* Properties of the module-level functions (under Spec) *)

AnyFault(log) == \E i \in 1..Len(log) : ~log[i].ok

IsFailure(v) == DOMAIN v = {"success", "error"} /\ v.success = FALSE

HasSuccessFlag(v) == "success" \in DOMAIN v /\ v.success \in BOOLEAN

RemoteOps ==
    { "send_news_email", "send_email", "save_news_to_sheets",
      "create_sheets_header", "write_to_sheets", "append_to_sheets",
      "read_from_sheets" }

WrappedOps ==
    {"send_news_email", "send_email", "save_news_to_sheets", "create_sheets_header"}

RawOps == {"write_to_sheets", "append_to_sheets", "read_from_sheets"}

\* C2 as stated: each of the seven functions that call a remote service
\* returns {success: bool, ...}, and {success: false, error} when the remote
\* call or its authentication fails, never handing the fault to its caller.
C2_AllReturnResultShape ==
    call.op \in RemoteOps =>
        /\ call.outcome.kind = "return"
        /\ HasSuccessFlag(call.outcome.value)
        /\ AnyFault(call.log) => IsFailure(call.outcome.value)

\* C2 as amended: send_news_email, send_email, save_news_to_sheets and
\* create_sheets_header return {success: bool, ...} and, when a remote call or
\* its authentication fails, {success: false, error: <message>} without
\* handing the fault on; write_to_sheets, append_to_sheets and read_from_sheets
\* return the vendor's reply (or the list of values), which has no success
\* field, and hand such a failure to their caller as an exception.
C2_WrappedReturnRawPropagate ==
    /\ call.op \in WrappedOps =>
        /\ call.outcome.kind = "return"
        /\ HasSuccessFlag(call.outcome.value)
        /\ AnyFault(call.log) =>
            call.outcome.value = [success |-> FALSE, error |-> FaultMsg(call.log)]
    /\ call.op \in RawOps =>
        /\ AnyFault(call.log) => call.outcome = Raise(FaultMsg(call.log))
        /\ call.outcome.kind = "return" =>
            /\ ~AnyFault(call.log)
            /\ "success" \notin DOMAIN call.outcome.value

\* create_sheets_header whose update was refused by the service
C2_Witness ==
    /\ call.op = "create_sheets_header"
    /\ call.log # <<>>
    /\ call.log[Len(call.log)].ev = "values.update"
    /\ ~call.log[Len(call.log)].ok
    /\ IsFailure(call.outcome.value)

NoIdArgOps == {"save_news_to_sheets", "create_sheets_header", "get_sheet_url"}

\* the call constructs its client with no spreadsheet ID, argument or environment
NoSpreadsheetId ==
    /\ ~Truthy(env.GOOGLE_SPREADSHEET_ID)
    /\ \/ call.op \in NoIdArgOps
       \/ call.op \in RawOps /\ ~Truthy(call.args.spreadsheet_id)

\* C3: with no spreadsheet ID in the arguments or the environment, constructing
\* a SheetsClient ends in the one configuration error, before any credential
\* file is loaded and before any remote call; save_news_to_sheets and
\* create_sheets_header return {success: false, error: <that message>},
\* get_sheet_url returns None, none of the three raises.
C3_MissingSpreadsheetId ==
    NoSpreadsheetId =>
        /\ call.log = <<>>
        /\ call.op \in {"save_news_to_sheets", "create_sheets_header"} =>
            call.outcome =
                Return([success |-> FALSE, error |-> MsgNoSpreadsheetId])
        /\ call.op = "get_sheet_url" => call.outcome = Return(None)
        /\ call.op \in RawOps => call.outcome = Raise(MsgNoSpreadsheetId)

\* save_news_to_sheets with neither the ID nor the key file configured
C3_Witness ==
    /\ call.op = "save_news_to_sheets"
    /\ env.GOOGLE_SPREADSHEET_ID = None
    /\ env.GOOGLE_SERVICE_ACCOUNT_FILE = None
    /\ call.outcome.value.success = FALSE
    /\ call.outcome.value.error = MsgNoSpreadsheetId

\* send_news_email was called with no recipient, argument or environment
NoRecipient ==
    /\ call.op = "send_news_email"
    /\ ~Truthy(call.args.to_email)
    /\ ~Truthy(env.GMAIL_TO)

\* C4: send_news_email without a to_email argument and without GMAIL_TO
\* returns {success: false, error: <message>}, takes no step towards the
\* Gmail service, leaves the token file as it was and sends no message.
C4_NoRecipient ==
    /\ [](NoRecipient =>
            /\ call.outcome.kind = "return"
            /\ IsFailure(call.outcome.value)
            /\ call.log = <<>>)
    /\ [][NoRecipient' => token_file' = token_file /\ outbox' = outbox]_vars

\* no recipient, and a token file that acquiring the service would rewrite
C4_Witness ==
    /\ NoRecipient
    /\ token_file = "expired"
    /\ call.outcome.value.success = FALSE

\* C5: nothing is retried. One send_news_email issues at most one
\* messages.send, one save_news_to_sheets at most one values.append, one
\* create_sheets_header at most one values.update, and after a step of an
\* invocation has failed the invocation takes no further step of that kind.
C5_NoRetry ==
    /\ call.op \in {"send_news_email", "send_email"} =>
        CountSteps(call.log, "messages.send") <= 1
    /\ call.op = "save_news_to_sheets" =>
        CountSteps(call.log, "values.append") <= 1
    /\ call.op = "create_sheets_header" =>
        CountSteps(call.log, "values.update") <= 1
    /\ call.op \in RemoteOps =>
        \A i \in 1..Len(call.log) : \A j \in 1..Len(call.log) :
            (i < j /\ call.log[i].ev = call.log[j].ev) => call.log[i].ok

\* a send that the service refused, and no second one
C5_Witness ==
    /\ call.op = "send_news_email"
    /\ call.log # <<>>
    /\ call.log[Len(call.log)].ev = "messages.send"
    /\ ~call.log[Len(call.log)].ok
    /\ CountSteps(call.log, "messages.send") = 1
    /\ call.outcome.value.success = FALSE

\* the positions of the steps of one kind in a log
StepsAt(log, ev) == {i \in 1..Len(log) : log[i].ev = ev}

\* the rows the invocation appended
Appended(log) ==
    IF CountOk(log, "values.append") = 0 THEN 0
    ELSE Len(log[CHOOSE i \in StepsAt(log, "values.append") : log[i].ok].arg.body)

\* C8: save_news_to_sheets appends before it constructs the client it builds
\* sheet_url from. It returns success: true only when the append and then that
\* construction both succeeded; when the construction fails it returns
\* {success: false, error} although the rows are in the spreadsheet.
C8_AppendBeforeSecondClient ==
    /\ [](call.op = "save_news_to_sheets" =>
            LET log == call.log
                n == Len(log)
            IN  /\ \A i \in StepsAt(log, "values.append") :
                    Cardinality({j \in StepsAt(log, "from_service_account_file") :
                                    j < i}) = 1
                /\ call.outcome.value.success =>
                    /\ n >= 3
                    /\ IsOkStep(log[n - 2], "values.append")
                    /\ IsOkStep(log[n - 1], "from_service_account_file")
                    /\ IsOkStep(log[n], "build_sheets")
                /\ AnyFault(log) => IsFailure(call.outcome.value))
    /\ [][call'.op = "save_news_to_sheets" =>
            sheet_rows' = sheet_rows + Appended(call'.log)]_vars

\* a failure result, and the rows in the spreadsheet all the same
C8_Witness ==
    /\ call.op = "save_news_to_sheets"
    /\ call.outcome.value.success = FALSE
    /\ CountOk(call.log, "values.append") = 1
    /\ ~call.log[Len(call.log)].ok
    /\ call.log[Len(call.log)].ev \in {"from_service_account_file", "build_sheets"}
    /\ sheet_rows > 0

----------------------------------------------------------------------------
(* Properties of the rows save_news_to_sheets appends (under SpecRows) *)

Empty == <<>>

\* what a column of an article's row holds before any cut
Column(article, f) == IF f \in DOMAIN article THEN article[f] ELSE Empty

\* s is the first characters of t, at most 500 of them, and all of t if shorter
IsCutOf(s, t) ==
    /\ Len(s) = (IF Len(t) < 500 THEN Len(t) ELSE 500)
    /\ \A j \in 1..Len(s) : s[j] = t[j]

RowsAsDocumented(body) ==
    LET ts == IF call.args.add_timestamp THEN 1 ELSE 0
        hd == IF call.args.add_header THEN 1 ELSE 0
    IN  /\ Len(body) = ts + hd + Len(articles)
        /\ \A r \in 1..Len(body) : Len(body[r]) = 5
        /\ call.args.add_timestamp =>
            body[1] = << <<"===", "pi", "ci", ":">> \o call.args.now \o <<"===">>,
                         Empty, Empty, Empty, Empty >>
        /\ call.args.add_header =>
            body[ts + 1] = << <<"fa", "bu", "shi", "jian">>, <<"biao", "ti">>,
                              <<"lai", "yuan">>, <<"lian", "jie">>,
                              <<"zhai", "yao">> >>
        /\ \A i \in 1..Len(articles) :
            LET row == body[ts + hd + i]
                a == articles[i]
            IN  /\ row[1] = Column(a, "published_at")
                /\ row[2] = Column(a, "title")
                /\ row[3] = Column(a, "source")
                /\ row[4] = Column(a, "url")
                /\ IsCutOf(row[5], Column(a, "raw_summary"))

----------------------------------------------------------------------------
(* Properties of the client's cache (under SpecCache) *)

CacheReaders == {"get_sheets", "get_first_sheet_title"}
DataMethods == {"write_data", "append_data", "read_data"}

Fetched == CountSteps(call.log, "spreadsheets.get") > 0

\* C9: get_sheets and get_first_sheet_title go to the remote service only when
\* the cache is unset or force_refresh is true; once a fetch has succeeded, a
\* call without force_refresh returns the cached list, unchanged, with no
\* remote step, also when that list is empty; a fetch that fails leaves the
\* cache as it was; write_data, append_data and read_data never change it.
C9_CacheDiscipline ==
    /\ call.op \in CacheReaders =>
        /\ Fetched => (~call.cache_before.some \/ call.args.force_refresh)
        /\ (call.cache_before.some /\ ~call.args.force_refresh) =>
            /\ call.log = <<>>
            /\ client_cache = call.cache_before
            /\ call.op = "get_sheets" =>
                call.outcome = Return([list |-> call.cache_before.v])
        /\ AnyFault(call.log) => client_cache = call.cache_before
        /\ (Fetched /\ ~AnyFault(call.log)) => client_cache.some
    /\ call.op \in DataMethods => client_cache = call.cache_before

\* an empty list cached, the remote spreadsheet no longer empty, and
\* get_sheets answering from the cache
C9_Witness ==
    /\ call.op = "get_sheets"
    /\ ~call.args.force_refresh
    /\ call.cache_before = [some |-> TRUE, v |-> <<>>]
    /\ sheets_meta # <<>>
    /\ call.log = <<>>
    /\ call.outcome = Return([list |-> <<>>])

====
